---- MODULE Spec2Model ----
(***************************************************************************)
(* Agent Park morning briefing (src/agentpark.py, src/app.py).             *)
(*                                                                         *)
(* A text is a sequence of tokens; the tokens " " and "\n" are whitespace, *)
(* every other token is an unbreakable run of non-whitespace characters.   *)
(* A JSON object is a record; a key the provider left out is a field that  *)
(* is not in the record's DOMAIN.                                          *)
(***************************************************************************)
EXTENDS Integers, Sequences, FiniteSets, TLC

VARIABLES NYT_KEY, WEATHER_KEY, pc, requests, weather, news, events,
          packages, world_stories, politics_stories, global_politics_items,
          tech_stories, tokenFile, now, call, ncalls, logins, raisedBy,
          summary, response

vars == <<NYT_KEY, WEATHER_KEY, pc, requests, weather, news, events,
          packages, world_stories, politics_stories, global_politics_items,
          tech_stories, tokenFile, now, call, ncalls, logins, raisedBy,
          summary, response>>

(***************************************************************************)
(* Bounds of the model.                                                    *)
(***************************************************************************)
MaxStories == 2
MaxEvents == 2
MaxMessages == 2
MaxTime == 3
MaxCalls == 4

(***************************************************************************)
(* Constants of the program.                                               *)
(***************************************************************************)
WorldMaxItems == 8
TechMaxItems == 10
GlobalLimit == 3
TechLimit == 4

(***************************************************************************)
(* Texts.                                                                  *)
(***************************************************************************)
IsSpace(c) == c \in {" ", "\n", "\t"}

RECURSIVE LStrip(_)
LStrip(s) ==
    IF s = <<>> THEN <<>>
    ELSE IF IsSpace(Head(s)) THEN LStrip(Tail(s))
    ELSE s

RECURSIVE RStrip(_)
RStrip(s) ==
    IF s = <<>> THEN <<>>
    ELSE IF IsSpace(s[Len(s)]) THEN RStrip(SubSeq(s, 1, Len(s) - 1))
    ELSE s

\* str.strip()
Strip(s) == RStrip(LStrip(s))

\* sep.join(texts)
RECURSIVE Join(_, _)
Join(sep, texts) ==
    IF texts = <<>> THEN <<>>
    ELSE IF Len(texts) = 1 THEN texts[1]
    ELSE texts[1] \o sep \o Join(sep, Tail(texts))

\* seq[:n]
Take(seq, n) == SubSeq(seq, 1, IF Len(seq) < n THEN Len(seq) ELSE n)

\* (d.get(k) or "")
GetOrEmpty(d, k) == IF k \in DOMAIN d THEN d[k] ELSE <<>>

(***************************************************************************)
(* get_top_news                                                            *)
(***************************************************************************)
ORDINAL_WORDS == <<"first", "second", "third", "fourth", "fifth">>

\* ORDINAL_WORDS[idx] if idx < len(ORDINAL_WORDS) else f"{idx + 1}th"
Ordinal(idx) ==
    IF idx < Len(ORDINAL_WORDS) THEN <<ORDINAL_WORDS[idx + 1]>>
    ELSE <<ToString(idx + 1) \o "th">>

_build_rich_summary(story) ==
    LET abstract0 == Strip(GetOrEmpty(story, "abstract"))
        abstract == IF abstract0 = <<>>
                    THEN Strip(GetOrEmpty(story, "snippet"))
                    ELSE abstract0
        section == Strip(GetOrEmpty(story, "section"))
        subsection == Strip(GetOrEmpty(story, "subsection"))
        byline == Strip(GetOrEmpty(story, "byline"))
        geo == GetOrEmpty(story, "geo_facet")
        des == GetOrEmpty(story, "des_facet")
        s1 == IF section /= <<>>
              THEN IF subsection /= <<>>
                   THEN << <<"This story appears in the", " ">> \o section
                           \o <<" ", "-", " ">> \o subsection
                           \o <<" ", "section of the New York Times.">> >>
                   ELSE << <<"This story appears in the", " ">> \o section
                           \o <<" ", "section of the New York Times.">> >>
              ELSE <<>>
        s2 == IF geo /= <<>>
              THEN << <<"It is particularly focused on", " ">>
                      \o Join(<<",", " ">>, Take(geo, 2)) \o <<".">> >>
              ELSE <<>>
        s3 == IF des /= <<>>
              THEN << <<"Key themes include", " ">>
                      \o Join(<<",", " ">>, Take(des, 3)) \o <<".">> >>
              ELSE <<>>
        s4 == IF byline /= <<>> THEN <<byline>> ELSE <<>>
        extra_sentences == s1 \o s2 \o s3 \o s4
    IN  IF abstract = <<>> /\ extra_sentences = <<>>
        THEN <<"No summary available.">>
        ELSE Join(<<" ">>, <<abstract>> \o extra_sentences)

\* s.get("published_date", ""): the rank of the date string in the
\* lexicographic order of strings, 0 for the empty string
PublishedDate(s) == IF "published_date" \in DOMAIN s THEN s.published_date ELSE 0

\* list.sort(key=..., reverse=True): stable, descending
RECURSIVE InsertDesc(_, _)
InsertDesc(s, sorted) ==
    IF sorted = <<>> THEN <<s>>
    ELSE IF PublishedDate(Head(sorted)) >= PublishedDate(s)
         THEN <<Head(sorted)>> \o InsertDesc(s, Tail(sorted))
         ELSE <<s>> \o sorted

RECURSIVE SortByDateDesc(_)
SortByDateDesc(stories) ==
    IF stories = <<>> THEN <<>>
    ELSE InsertDesc(stories[Len(stories)],
                    SortByDateDesc(SubSeq(stories, 1, Len(stories) - 1)))

\* the loop without the test of seen_titles
RECURSIVE BuildItems_nodedupe(_, _, _, _)
BuildItems_nodedupe(stories, items, seen_titles, limit) ==
    IF stories = <<>> THEN items
    ELSE LET s == Head(stories)
             title == Strip(GetOrEmpty(s, "title"))
         IN  IF title = <<>>
             THEN BuildItems_nodedupe(Tail(stories), items, seen_titles, limit)
             ELSE LET item == [ordinal |-> Ordinal(Len(items)),
                               title |-> title,
                               summary |-> _build_rich_summary(s)]
                      items2 == Append(items, item)
                  IN  IF Len(items2) >= limit THEN items2
                      ELSE BuildItems_nodedupe(Tail(stories), items2,
                                               seen_titles \cup {title}, limit)

\* the loop over the candidates of one section (lines 153-176, 180-203)
RECURSIVE BuildItems(_, _, _, _)
BuildItems(stories, items, seen_titles, limit) ==
    IF stories = <<>> THEN items
    ELSE LET s == Head(stories)
             title == Strip(GetOrEmpty(s, "title"))
         IN  IF title = <<>> \/ title \in seen_titles
             THEN BuildItems(Tail(stories), items, seen_titles, limit)
             ELSE LET item == [ordinal |-> Ordinal(Len(items)),
                               title |-> title,
                               summary |-> _build_rich_summary(s)]
                      items2 == Append(items, item)
                  IN  IF Len(items2) >= limit THEN items2
                      ELSE BuildItems(Tail(stories), items2,
                                      seen_titles \cup {title}, limit)

\* the result when NYT_API_KEY is unset (lines 129-139)
KeyMissingNews ==
    LET fallback == << [ordinal |-> <<"first">>,
                        title |-> <<"(NYT API key missing)">>,
                        summary |-> <<"Add NYT_API_KEY in your .env file to enable news.">>] >>
    IN  [global_politics |-> fallback, technology |-> fallback]

\* the result of the except branch (lines 229-239)
NewsUnavailable(e) ==
    LET fallback == << [ordinal |-> <<"first">>,
                        title |-> <<"News unavailable">>,
                        summary |-> <<"Error fetching NYT news:", " ", e>>] >>
    IN  [global_politics |-> fallback, technology |-> fallback]

\* lines 206-213
NoGlobalItem ==
    [ordinal |-> <<"first">>,
     title |-> <<"No global or political stories available.">>,
     summary |-> <<"The New York Times API did not return any global or political stories at this time.">>]

\* lines 215-222
NoTechItem ==
    [ordinal |-> <<"first">>,
     title |-> <<"No technology stories available.">>,
     summary |-> <<"The New York Times API did not return any technology stories at this time.">>]

\* lines 143-176: candidates of the global/political section and its items
GlobalCandidates(world, politics) == SortByDateDesc(world \o politics)

GlobalItems(world, politics) ==
    BuildItems(GlobalCandidates(world, politics), <<>>, {}, GlobalLimit)

\* lines 180-203
TechItems(tech) == BuildItems(tech, <<>>, {}, TechLimit)

\* lines 205-227
NewsResult(global_items, tech_items) ==
    [global_politics |-> IF global_items = <<>> THEN <<NoGlobalItem>> ELSE global_items,
     technology |-> IF tech_items = <<>> THEN <<NoTechItem>> ELSE tech_items]

\* data.get("results", [])[:max_items]
_fetch_nyt_section(data, max_items) ==
    Take(IF "results" \in DOMAIN data THEN data.results ELSE <<>>, max_items)

(***************************************************************************)
(* What the news provider may answer.                                      *)
(***************************************************************************)
S_a1 == [title |-> <<" ", "a">>, published_date |-> 2, abstract |-> <<"x">>,
         section |-> <<"World">>, subsection |-> <<"Europe">>,
         geo_facet |-> << <<"g1">>, <<"g2">>, <<"g3">> >>,
         des_facet |-> << <<"d1">>, <<"d2">>, <<"d3">>, <<"d4">> >>,
         byline |-> <<"By", " ", "A">>]
S_a2 == [title |-> <<"a", " ">>, published_date |-> 1, abstract |-> <<>>,
         snippet |-> <<"y">>]
S_b == [title |-> <<"b">>, published_date |-> 2, abstract |-> <<" ">>,
        section |-> <<"U.S.">>]
S_blank == [title |-> <<" ">>, published_date |-> 3, abstract |-> <<"z">>]
S_none == [abstract |-> <<"n">>]
S_c == [title |-> <<"c">>, published_date |-> 1]
S_d == [title |-> <<"d">>, published_date |-> 3, abstract |-> <<"w">>]
S_e == [title |-> <<"e">>, published_date |-> 1, abstract |-> <<"v">>]
S_f == [title |-> <<"f">>, published_date |-> 4, abstract |-> <<"u">>]

Catalogue == {S_a1, S_a2, S_b, S_blank}

Repeat(s, n) == [i \in 1..n |-> s]

DistinctFeed == <<S_a1, S_b, S_c, S_d, S_e, S_f>>

\* every short list of stories, the prefixes of a feed of stories with
\* distinct titles, and feeds about as long as the cut of the section
ResultLists(max_items) ==
    UNION {[1..n -> Catalogue] : n \in 0..MaxStories}
    \cup {SubSeq(DistinctFeed, 1, n) : n \in 3..Len(DistinctFeed)}
    \cup {Repeat(s, n) \o <<S_f>> :
            s \in {S_none, S_a2}, n \in {max_items - 1, max_items}}

Responses(max_items) ==
    {[status |-> "OK", results |-> r] : r \in ResultLists(max_items)}
    \cup {[status |-> "OK"]}

\* the briefing is explored with few answers per section
BriefResponses(max_items) ==
    {[status |-> "OK", results |-> r] :
        r \in {<<>>, <<S_a1, S_a2>>, DistinctFeed, Repeat(S_none, max_items) \o <<S_f>>}}

Errors == {"HTTPError", "Timeout"}

NoNews == [global_politics |-> <<>>, technology |-> <<>>]

Request(endpoint, ok) == [endpoint |-> endpoint, ok |-> ok]

\* get_top_news that asks the provider before it looks at the key
FetchWorld_requestFirst(R) ==
    /\ pc = "news_world"
    /\ \/ \E data \in R :
            /\ requests' = Append(requests, Request("nyt_world", TRUE))
            /\ IF ~NYT_KEY
               THEN /\ news' = KeyMissingNews
                    /\ pc' = "calendar"
                    /\ UNCHANGED world_stories
               ELSE /\ world_stories' = _fetch_nyt_section(data, WorldMaxItems)
                    /\ pc' = "news_politics"
                    /\ UNCHANGED news
       \/ \E e \in Errors :
            /\ requests' = Append(requests, Request("nyt_world", FALSE))
            /\ news' = NewsUnavailable(e)
            /\ pc' = "calendar"
            /\ UNCHANGED world_stories
    /\ UNCHANGED <<NYT_KEY, WEATHER_KEY, weather, events, packages,
                   politics_stories, global_politics_items, tech_stories,
                   tokenFile, now, call, ncalls, logins, raisedBy, summary,
                   response>>

\* get_top_news up to the first request (lines 129-143)
FetchWorld(R) ==
    /\ pc = "news_world"
    /\ IF ~NYT_KEY
       THEN /\ news' = KeyMissingNews
            /\ pc' = "calendar"
            /\ UNCHANGED <<requests, world_stories>>
       ELSE \/ \E data \in R :
                 /\ requests' = Append(requests, Request("nyt_world", TRUE))
                 /\ world_stories' = _fetch_nyt_section(data, WorldMaxItems)
                 /\ pc' = "news_politics"
                 /\ UNCHANGED news
            \/ \E e \in Errors :
                 /\ requests' = Append(requests, Request("nyt_world", FALSE))
                 /\ news' = NewsUnavailable(e)
                 /\ pc' = "calendar"
                 /\ UNCHANGED world_stories
    /\ UNCHANGED <<NYT_KEY, WEATHER_KEY, weather, events, packages,
                   politics_stories, global_politics_items, tech_stories,
                   tokenFile, now, call, ncalls, logins, raisedBy, summary,
                   response>>

\* get_top_news that goes on with the technology section after the
\* politics request failed
FetchPolitics_continue(R) ==
    /\ pc = "news_politics"
    /\ \/ \E data \in R :
            /\ requests' = Append(requests, Request("nyt_politics", TRUE))
            /\ politics_stories' = _fetch_nyt_section(data, WorldMaxItems)
       \/ /\ requests' = Append(requests, Request("nyt_politics", FALSE))
          /\ politics_stories' = <<>>
    /\ global_politics_items' = GlobalItems(world_stories, politics_stories')
    /\ pc' = "news_tech"
    /\ UNCHANGED <<news, world_stories>>
    /\ UNCHANGED <<NYT_KEY, WEATHER_KEY, weather, events, packages,
                   tech_stories, tokenFile, now, call, ncalls, logins,
                   raisedBy, summary, response>>

\* the second request and the global/political loop (lines 144-176)
FetchPolitics(R) ==
    /\ pc = "news_politics"
    /\ \/ \E data \in R :
            /\ requests' = Append(requests, Request("nyt_politics", TRUE))
            /\ politics_stories' = _fetch_nyt_section(data, WorldMaxItems)
            /\ global_politics_items' =
                 GlobalItems(world_stories, politics_stories')
            /\ pc' = "news_tech"
            /\ UNCHANGED <<news, world_stories>>
       \/ \E e \in Errors :
            /\ requests' = Append(requests, Request("nyt_politics", FALSE))
            /\ news' = NewsUnavailable(e)
            /\ pc' = "calendar"
            /\ world_stories' = <<>>
            /\ UNCHANGED <<politics_stories, global_politics_items>>
    /\ UNCHANGED <<NYT_KEY, WEATHER_KEY, weather, events, packages,
                   tech_stories, tokenFile, now, call, ncalls, logins,
                   raisedBy, summary, response>>

\* get_top_news that keeps the global/political items when the technology
\* request fails
FetchTech_partial(R) ==
    /\ pc = "news_tech"
    /\ \/ \E data \in R :
            /\ requests' = Append(requests, Request("nyt_technology", TRUE))
            /\ tech_stories' = _fetch_nyt_section(data, TechMaxItems)
            /\ news' = NewsResult(global_politics_items, TechItems(tech_stories'))
       \/ \E e \in Errors :
            /\ requests' = Append(requests, Request("nyt_technology", FALSE))
            /\ news' = [NewsResult(global_politics_items, <<>>)
                          EXCEPT !.technology = NewsUnavailable(e).technology]
            /\ UNCHANGED tech_stories
    /\ pc' = "calendar"
    /\ world_stories' = <<>>
    /\ politics_stories' = <<>>
    /\ global_politics_items' = <<>>
    /\ UNCHANGED <<NYT_KEY, WEATHER_KEY, weather, events, packages,
                   tokenFile, now, call, ncalls, logins, raisedBy, summary,
                   response>>

\* the third request, the technology loop and the return (lines 179-239)
FetchTech(R) ==
    /\ pc = "news_tech"
    /\ \/ \E data \in R :
            /\ requests' = Append(requests, Request("nyt_technology", TRUE))
            /\ tech_stories' = _fetch_nyt_section(data, TechMaxItems)
            /\ news' = NewsResult(global_politics_items, TechItems(tech_stories'))
       \/ \E e \in Errors :
            /\ requests' = Append(requests, Request("nyt_technology", FALSE))
            /\ news' = NewsUnavailable(e)
            /\ UNCHANGED tech_stories
    /\ pc' = "calendar"
    /\ world_stories' = <<>>
    /\ politics_stories' = <<>>
    /\ global_politics_items' = <<>>
    /\ UNCHANGED <<NYT_KEY, WEATHER_KEY, weather, events, packages,
                   tokenFile, now, call, ncalls, logins, raisedBy, summary,
                   response>>

(***************************************************************************)
(* get_credentials                                                         *)
(*                                                                         *)
(* A credential is the pickled object of the token file: the time its      *)
(* access token was issued, the time it expires and whether the identity   *)
(* provider handed out a refresh token with it.                            *)
(***************************************************************************)
TokenLifetime == 2

TokenFiles == {"token_calendar.pkl", "token_gmail.pkl"}

\* creds = None, and the token file that does not exist
NoCred == [present |-> FALSE, issued |-> 0, expiry |-> 0, refresh_token |-> FALSE]

\* creds.expired
Expired(c, t) == t >= c.expiry

\* creds.valid
Valid(c, t) == ~Expired(c, t)

\* creds.refresh(Request()): a new access token, the refresh token is kept
Refresh(c, t) ==
    [present |-> TRUE, issued |-> t, expiry |-> t + TokenLifetime,
     refresh_token |-> c.refresh_token]

\* flow.run_local_server(port=0): the provider decides on the refresh token
Grant(t, refresh_token) ==
    [present |-> TRUE, issued |-> t, expiry |-> t + TokenLifetime,
     refresh_token |-> refresh_token]

\* what the identity provider does in one call: the refresh or the login
\* succeeds or raises, and a login yields a refresh token or none
Flows == [ok : BOOLEAN, refresh_token : BOOLEAN]

\* get_credentials that writes the token file after a login only
get_credentials_nopersist(stored, t, flow) ==
    IF stored.present /\ Valid(stored, t)
    THEN [path |-> "cached", raised |-> FALSE, creds |-> stored, file |-> stored]
    ELSE IF stored.present /\ Expired(stored, t) /\ stored.refresh_token
    THEN IF flow.ok
         THEN [path |-> "refresh", raised |-> FALSE,
               creds |-> Refresh(stored, t), file |-> stored]
         ELSE [path |-> "refresh", raised |-> TRUE, creds |-> NoCred,
               file |-> stored]
    ELSE IF flow.ok
         THEN [path |-> "login", raised |-> FALSE,
               creds |-> Grant(t, flow.refresh_token),
               file |-> Grant(t, flow.refresh_token)]
         ELSE [path |-> "login", raised |-> TRUE, creds |-> NoCred,
               file |-> stored]

\* get_credentials(scopes, token_filename) on the stored credential at time t:
\* the branch taken, whether it raised, the credential returned and the
\* content of the token file afterwards
get_credentials(stored, t, flow) ==
    IF stored.present /\ Valid(stored, t)
    THEN [path |-> "cached", raised |-> FALSE, creds |-> stored, file |-> stored]
    ELSE IF stored.present /\ Expired(stored, t) /\ stored.refresh_token
    THEN IF flow.ok
         THEN [path |-> "refresh", raised |-> FALSE,
               creds |-> Refresh(stored, t), file |-> Refresh(stored, t)]
         ELSE [path |-> "refresh", raised |-> TRUE, creds |-> NoCred,
               file |-> stored]
    ELSE IF flow.ok
         THEN [path |-> "login", raised |-> FALSE,
               creds |-> Grant(t, flow.refresh_token),
               file |-> Grant(t, flow.refresh_token)]
         ELSE [path |-> "login", raised |-> TRUE, creds |-> NoCred,
               file |-> stored]

NoCall == [file |-> "", path |-> "", raised |-> FALSE, creds |-> NoCred]

\* the effect of one call of get_credentials on the token files and on the
\* record of the calls; logins counts the interactive logins that went through
CredentialsCall(f, r) ==
    /\ tokenFile' = [tokenFile EXCEPT ![f] = r.file]
    /\ call' = [file |-> f, path |-> r.path, raised |-> r.raised, creds |-> r.creds]
    /\ ncalls' = ncalls + 1
    /\ logins' = IF r.path = "login" /\ ~r.raised
                 THEN [logins EXCEPT ![f] = @ + 1]
                 ELSE logins

\* a call of get_credentials by any of its callers
GetCredentials ==
    /\ pc = "credentials"
    /\ ncalls < MaxCalls
    /\ \E f \in TokenFiles, flow \in Flows :
         CredentialsCall(f, get_credentials(tokenFile[f], now, flow))
    /\ UNCHANGED <<NYT_KEY, WEATHER_KEY, pc, requests, weather, news, events,
                   packages, world_stories, politics_stories,
                   global_politics_items, tech_stories, now, raisedBy,
                   summary, response>>

\* time passes between two calls
Tick ==
    /\ pc = "credentials"
    /\ now < MaxTime
    /\ now' = now + 1
    /\ UNCHANGED <<NYT_KEY, WEATHER_KEY, pc, requests, weather, news, events,
                   packages, world_stories, politics_stories,
                   global_politics_items, tech_stories, tokenFile, call,
                   ncalls, logins, raisedBy, summary, response>>

(***************************************************************************)
(* get_weather_summary                                                     *)
(***************************************************************************)
WeatherKeyMissing == <<"(Weather API key missing - add WEATHER_API_KEY in .env)">>

\* round(x) of a temperature given in tenths of a degree: half to even
Round(tenths) ==
    LET q == tenths \div 10
        r == tenths % 10
    IN  IF r < 5 THEN q
        ELSE IF r > 5 THEN q + 1
        ELSE IF q % 2 = 0 THEN q ELSE q + 1

\* data["weather"][0] and data["main"] can be read
WeatherWellFormed(data) == data.weather /= <<>>

\* lines 259-264
WeatherText(data) ==
    data.weather[1].description
    \o <<",", " ", "currently", " ", ToString(Round(data.main.temp)), "F", " ",
         "with a high of", " ", ToString(Round(data.main.temp_max)), " ",
         "and low of", " ", ToString(Round(data.main.temp_min))>>

WeatherResponses ==
    {[weather |-> << [description |-> <<"clear", " ", "sky">>] >>,
      main |-> [temp |-> 725, temp_max |-> 735, temp_min |-> 0 - 5]],
     [weather |-> <<>>,
      main |-> [temp |-> 600, temp_max |-> 600, temp_min |-> 600]]}

get_weather_summary ==
    /\ pc = "weather"
    /\ IF ~WEATHER_KEY
       THEN /\ weather' = WeatherKeyMissing
            /\ pc' = "news_world"
            /\ UNCHANGED <<requests, raisedBy>>
       ELSE \/ \E data \in WeatherResponses :
                 /\ requests' = Append(requests, Request("weather", TRUE))
                 /\ IF WeatherWellFormed(data)
                    THEN /\ weather' = WeatherText(data)
                         /\ pc' = "news_world"
                         /\ UNCHANGED raisedBy
                    ELSE /\ raisedBy' = "get_weather_summary"
                         /\ pc' = "raised"
                         /\ UNCHANGED weather
            \/ /\ requests' = Append(requests, Request("weather", FALSE))
               /\ raisedBy' = "get_weather_summary"
               /\ pc' = "raised"
               /\ UNCHANGED weather
    /\ UNCHANGED <<NYT_KEY, WEATHER_KEY, news, events, packages,
                   world_stories, politics_stories, global_politics_items,
                   tech_stories, tokenFile, now, call, ncalls, logins,
                   summary, response>>

(***************************************************************************)
(* get_today_calendar_events                                               *)
(***************************************************************************)
\* two digits, as two tokens
TwoDigits(n) == <<ToString(n \div 10), ToString(n % 10)>>

\* str.lstrip("0")
RECURSIVE LStripZero(_)
LStripZero(s) ==
    IF s = <<>> THEN <<>>
    ELSE IF Head(s) = "0" THEN LStripZero(Tail(s))
    ELSE s

\* dt.strftime("%I:%M %p").lstrip("0")
ClockText(hour, minute) ==
    LET h12 == IF hour % 12 = 0 THEN 12 ELSE hour % 12
    IN  LStripZero(TwoDigits(h12) \o <<":">> \o TwoDigits(minute)
                   \o <<" ", IF hour < 12 THEN "AM" ELSE "PM">>)

\* lines 293-299: a start is the text the API sent and, when
\* datetime.fromisoformat reads it, the hour and the minute it denotes
StartText(start) ==
    LET start_raw == IF "dateTime" \in DOMAIN start THEN start.dateTime
                     ELSE IF "date" \in DOMAIN start THEN start.date
                     ELSE [iso |-> FALSE, hour |-> 0, minute |-> 0, raw |-> <<"None">>]
    IN  IF start_raw.iso THEN ClockText(start_raw.hour, start_raw.minute)
        ELSE start_raw.raw

\* lines 291-304
RECURSIVE EventSummaries(_)
EventSummaries(items) ==
    IF items = <<>> THEN <<>>
    ELSE LET e == Head(items)
             title == IF "summary" \in DOMAIN e THEN e.summary ELSE <<"(no title)">>
         IN  <<StartText(e.start) \o <<":", " ">> \o title>>
             \o EventSummaries(Tail(items))

E_meet == [start |-> [dateTime |-> [iso |-> TRUE, hour |-> 9, minute |-> 30, raw |-> <<"T09:30">>]],
           summary |-> <<"Standup">>]
E_allday == [start |-> [date |-> [iso |-> TRUE, hour |-> 0, minute |-> 0, raw |-> <<"2026-11-03">>]]]
E_pm == [start |-> [dateTime |-> [iso |-> TRUE, hour |-> 13, minute |-> 5, raw |-> <<"T13:05">>]],
         summary |-> <<"Lunch">>]
E_odd == [start |-> [dateTime |-> [iso |-> FALSE, hour |-> 0, minute |-> 0, raw |-> <<"soon">>]],
          summary |-> <<>>]

EventFeed == <<E_meet, E_allday, E_pm, E_odd>>

\* the windows of at most n elements of a feed
Windows(feed, n) ==
    {w \in {SubSeq(feed, i, j) : i \in 1..Len(feed), j \in 0..Len(feed)} :
        Len(w) <= n}

CalendarResponses ==
    {[items |-> w] : w \in Windows(EventFeed, MaxEvents)} \cup {[kind |-> "calendar#events"]}

get_today_calendar_events ==
    /\ pc = "calendar"
    /\ \E flow \in Flows :
         LET r == get_credentials(tokenFile["token_calendar.pkl"], now, flow)
         IN  /\ CredentialsCall("token_calendar.pkl", r)
             /\ IF r.raised
                THEN /\ raisedBy' = "get_today_calendar_events"
                     /\ pc' = "raised"
                     /\ UNCHANGED <<requests, events>>
                ELSE \/ \E events_result \in CalendarResponses :
                          /\ requests' = Append(requests, Request("calendar_list", TRUE))
                          /\ events' = EventSummaries(
                                 IF "items" \in DOMAIN events_result
                                 THEN events_result.items ELSE <<>>)
                          /\ pc' = "mail"
                          /\ UNCHANGED raisedBy
                     \/ /\ requests' = Append(requests, Request("calendar_list", FALSE))
                        /\ raisedBy' = "get_today_calendar_events"
                        /\ pc' = "raised"
                        /\ UNCHANGED events
    /\ tech_stories' = <<>>
    /\ UNCHANGED <<NYT_KEY, WEATHER_KEY, weather, news, packages,
                   world_stories, politics_stories, global_politics_items,
                   now, summary, response>>

(***************************************************************************)
(* get_recent_package_emails                                               *)
(***************************************************************************)
\* headers.get(name, default) of the dict built from the header list, in
\* which a later header of the same name replaces an earlier one
RECURSIVE HeaderValue(_, _, _)
HeaderValue(headers, name, default) ==
    IF headers = <<>> THEN default
    ELSE IF headers[Len(headers)].name = name THEN headers[Len(headers)].value
    ELSE HeaderValue(SubSeq(headers, 1, Len(headers) - 1), name, default)

\* lines 339-344
PackageSummary(msg) ==
    LET headers == IF "headers" \in DOMAIN msg.payload
                   THEN msg.payload.headers ELSE <<>>
    IN  HeaderValue(headers, "Subject", <<"(no subject)">>)
        \o <<" ", "from", " ">>
        \o HeaderValue(headers, "From", <<"(unknown sender)">>)

M_1 == [payload |-> [headers |-> << [name |-> "Subject", value |-> <<"Shipped">>],
                                    [name |-> "From", value |-> <<"shop">>],
                                    [name |-> "Subject", value |-> <<"Order update">>] >>]]
M_2 == [payload |-> [headers |-> << [name |-> "From", value |-> <<"carrier">>] >>]]
M_3 == [payload |-> [mimeType |-> "text/plain"]]

Mailbox == <<M_1, M_2, M_3>>

\* messages.list answers with ids, messages.get with the message of an id
MailResponses ==
    {[messages |-> w] : w \in Windows(<<[id |-> 1], [id |-> 2], [id |-> 3]>>, MaxMessages)}
    \cup {[resultSizeEstimate |-> 0]}

RECURSIVE PackageSummaries(_)
PackageSummaries(messages) ==
    IF messages = <<>> THEN <<>>
    ELSE <<PackageSummary(Mailbox[Head(messages).id])>>
         \o PackageSummaries(Tail(messages))

get_recent_package_emails ==
    /\ pc = "mail"
    /\ \E flow \in Flows :
         LET r == get_credentials(tokenFile["token_gmail.pkl"], now, flow)
         IN  /\ CredentialsCall("token_gmail.pkl", r)
             /\ IF r.raised
                THEN /\ raisedBy' = "get_recent_package_emails"
                     /\ pc' = "raised"
                     /\ UNCHANGED <<requests, packages>>
                ELSE \/ \E results \in MailResponses :
                          LET messages == IF "messages" \in DOMAIN results
                                          THEN results.messages ELSE <<>>
                          IN  \E failing \in 0..Len(messages) :
                                \* the get of message number failing raises, 0: none does
                                LET gets == IF failing = 0 THEN Len(messages) ELSE failing
                                IN  /\ requests' = requests
                                         \o <<Request("gmail_list", TRUE)>>
                                         \o [i \in 1..gets |->
                                               Request("gmail_get", i /= failing)]
                                    /\ IF failing = 0
                                       THEN /\ packages' = PackageSummaries(messages)
                                            /\ pc' = "compose"
                                            /\ UNCHANGED raisedBy
                                       ELSE /\ raisedBy' = "get_recent_package_emails"
                                            /\ pc' = "raised"
                                            /\ UNCHANGED packages
                     \/ /\ requests' = Append(requests, Request("gmail_list", FALSE))
                        /\ raisedBy' = "get_recent_package_emails"
                        /\ pc' = "raised"
                        /\ UNCHANGED packages
    /\ UNCHANGED <<NYT_KEY, WEATHER_KEY, weather, news, events,
                   world_stories, politics_stories, global_politics_items,
                   tech_stories, now, summary, response>>

(***************************************************************************)
(* build_morning_summary                                                   *)
(***************************************************************************)
\* datetime.now().strftime("%A, %B %d")
today_str == <<"Tuesday,", " ", "November", " ", "03">>

Greeting == <<"Alrighty, here's your rundown for", " ">> \o today_str \o <<".">>
WeatherPart(w) == <<"\n", "Weather:", " ">> \o w \o <<".">>
TrendingHeader == <<"\n", "Here are today's trending stories:">>
GlobalHeader == <<"\n", "First, let's ramp you up on the global and political updates.">>
TechHeader == <<"\n", "Now, here's the latest within the tech industry.">>
EventsHeader == <<"\n", "Your key events today:">>
NoEvents == <<"\n", "Looks like we have no events noted in the calendar today!">>
PackagesHeader == <<"\n", "Recent package updates:">>
NoPackages == <<"\n", "You don't have any delivery updates you need to worry about right now.">>

\* lines 375-384 and 389-397: the parts of the items of one news section
RECURSIVE ItemParts(_, _)
ItemParts(items, phrase) ==
    IF items = <<>> THEN <<>>
    ELSE LET item == Head(items)
             ordinal0 == Strip(GetOrEmpty(item, "ordinal"))
             ordinal == IF ordinal0 = <<>> THEN <<"first">> ELSE ordinal0
             title == Strip(GetOrEmpty(item, "title"))
             summ == Strip(GetOrEmpty(item, "summary"))
         IN  (IF title /= <<>>
              THEN << <<"The", " ">> \o ordinal \o <<" ", phrase, " ">>
                      \o title \o <<".">> >>
              ELSE <<>>)
             \o (IF summ /= <<>> THEN <<summ>> ELSE <<>>)
             \o ItemParts(Tail(items), phrase)

\* f"• {e}" for every element
Bullets(lines) == [i \in 1..Len(lines) |-> <<"*", " ">> \o lines[i]]

\* the calendar section without its sentence for an empty list
CalendarParts_nofallback(evs) ==
    IF evs /= <<>> THEN <<EventsHeader>> \o Bullets(evs) ELSE <<>>

\* lines 399-405
CalendarParts(evs) ==
    IF evs /= <<>> THEN <<EventsHeader>> \o Bullets(evs) ELSE <<NoEvents>>

\* lines 407-413
PackageParts(pkgs) ==
    IF pkgs /= <<>> THEN <<PackagesHeader>> \o Bullets(pkgs) ELSE <<NoPackages>>

\* lines 359-413
Parts(w, n, evs, pkgs) ==
    LET global_news == n.global_politics
        tech_news == n.technology
    IN  <<Greeting, WeatherPart(w)>>
        \o (IF global_news /= <<>> \/ tech_news /= <<>>
            THEN <<TrendingHeader>> ELSE <<>>)
        \o (IF global_news /= <<>>
            THEN <<GlobalHeader>> \o ItemParts(global_news, "global update is:")
            ELSE <<>>)
        \o (IF tech_news /= <<>>
            THEN <<TechHeader>> \o ItemParts(tech_news, "tech trend is:")
            ELSE <<>>)
        \o CalendarParts(evs)
        \o PackageParts(pkgs)

\* the assembly and the return of build_morning_summary (lines 359-415)
Compose ==
    /\ pc = "compose"
    /\ summary' = Join(<<"\n">>, Parts(weather, news, events, packages))
    /\ pc' = "done"
    /\ UNCHANGED <<NYT_KEY, WEATHER_KEY, requests, weather, news, events,
                   packages, world_stories, politics_stories,
                   global_politics_items, tech_stories, tokenFile, now, call,
                   ncalls, logins, raisedBy, response>>

\* GET /morning-briefing (src/app.py)
morning_summary ==
    /\ pc = "done"
    /\ response' = summary
    /\ pc' = "responded"
    /\ UNCHANGED <<NYT_KEY, WEATHER_KEY, requests, weather, news, events,
                   packages, world_stories, politics_stories,
                   global_politics_items, tech_stories, tokenFile, now, call,
                   ncalls, logins, raisedBy, summary>>

(***************************************************************************)
(* Specifications.                                                         *)
(***************************************************************************)
\* the state before any fetcher has run
Fresh ==
    /\ requests = <<>>
    /\ weather = <<>>
    /\ news = NoNews
    /\ events = <<>>
    /\ packages = <<>>
    /\ world_stories = <<>>
    /\ politics_stories = <<>>
    /\ global_politics_items = <<>>
    /\ tech_stories = <<>>
    /\ call = NoCall
    /\ ncalls = 0
    /\ logins = [f \in TokenFiles |-> 0]
    /\ raisedBy = ""
    /\ summary = <<>>
    /\ response = <<>>

\* one call of get_top_news, with every answer of the provider
InitNews ==
    /\ NYT_KEY \in BOOLEAN
    /\ WEATHER_KEY = TRUE
    /\ pc = "news_world"
    /\ tokenFile = [f \in TokenFiles |-> NoCred]
    /\ now = 0
    /\ Fresh

NewsWorld == FetchWorld(Responses(WorldMaxItems))
NewsPolitics == FetchPolitics(Responses(WorldMaxItems))
NewsTech == FetchTech(Responses(TechMaxItems))

NextNews == NewsWorld \/ NewsPolitics \/ NewsTech

SpecNews == InitNews /\ [][NextNews]_vars

\* calls of get_credentials over time, from a machine without token files
InitCreds ==
    /\ NYT_KEY = TRUE
    /\ WEATHER_KEY = TRUE
    /\ pc = "credentials"
    /\ tokenFile = [f \in TokenFiles |-> NoCred]
    /\ now = 0
    /\ Fresh

NextCreds == GetCredentials \/ Tick

SpecCreds == InitCreds /\ [][NextCreds]_vars

\* the token files an earlier run may have left: none, a credential that has
\* expired, with and without a refresh token, and one that is still valid
StoredAtStart ==
    {NoCred, Grant(MaxTime - TokenLifetime, TRUE),
     Grant(MaxTime - TokenLifetime, FALSE), Grant(MaxTime, TRUE)}

\* one request of the briefing
Init ==
    /\ NYT_KEY \in BOOLEAN
    /\ WEATHER_KEY \in BOOLEAN
    /\ pc = "weather"
    /\ tokenFile \in [TokenFiles -> StoredAtStart]
    /\ now = MaxTime
    /\ Fresh

BriefWorld == FetchWorld(BriefResponses(WorldMaxItems))
BriefPolitics == FetchPolitics(BriefResponses(WorldMaxItems))
BriefTech == FetchTech(BriefResponses(TechMaxItems))

Next ==
    \/ get_weather_summary
    \/ BriefWorld
    \/ BriefPolitics
    \/ BriefTech
    \/ get_today_calendar_events
    \/ get_recent_package_emails
    \/ Compose
    \/ morning_summary

Spec == Init /\ [][Next]_vars

(***************************************************************************)
(* Properties.                                                             *)
(***************************************************************************)
Returned == pc \in {"done", "responded"}

NytEndpoints == {"nyt_world", "nyt_politics", "nyt_technology"}

\* C1: build_morning_summary never ends by propagating an exception,
\* whatever the outcomes of the four fetchers are.
C1_NeverRaises == pc /= "raised"

\* C2: a fetcher whose external request (HTTP call, credential acquisition
\* or API call) failed has returned a fallback value; no fetcher has raised.
C2_FetchersCatchOwnFailures ==
    ((\E i \in 1..Len(requests) : ~requests[i].ok) \/ call.raised)
        => raisedBy \notin {"get_weather_summary", "get_top_news",
                            "get_today_calendar_events",
                            "get_recent_package_emails"}

\* C3: for every token file the user logs in at most once; logins counts the
\* logins that went through, so a login the user abandoned is not held
\* against the claim.
C3_LoginOnlyOnce == \A f \in TokenFiles : logins[f] <= 1

\* C4: after a call of get_credentials that returned, the token file holds
\* the credential returned; and a token file changes exactly in a call for
\* this file that refreshed or newly granted the credential and returned.
C4_PersistAfterRefreshOrGrant ==
    /\ [](call /= NoCall /\ ~call.raised => tokenFile[call.file] = call.creds)
    /\ [][\A f \in TokenFiles :
            (tokenFile'[f] /= tokenFile[f])
               <=> /\ ncalls' = ncalls + 1
                   /\ call'.file = f
                   /\ call'.path \in {"refresh", "login"}
                   /\ ~call'.raised]_vars

C4_Witness ==
    /\ call.path = "refresh"
    /\ ~call.raised
    /\ tokenFile[call.file] = call.creds
    /\ call.creds.issued = now
    /\ now > 0

\* C5: when the provider answered the three requests, get_top_news returns
\* 2 or 3 global/political stories and 3 or 4 technology stories.
C5_StoryCounts ==
    (pc = "calendar" /\ Len(requests) = 3 /\ requests[3].ok)
        => /\ Len(news.global_politics) \in {2, 3}
           /\ Len(news.technology) \in {3, 4}

StrippedTitle(s) == Strip(GetOrEmpty(s, "title"))

\* items are the items of a section built from stories, where Before(k2, k)
\* says that story k2 is processed before story k: titles are not empty, no
\* two items share a title, every item is made of the first story of its
\* title, and no item is made only if no story has a title
Deduplicated(items, stories, Before(_, _)) ==
    /\ \A i \in 1..Len(items) :
         /\ items[i].title /= <<>>
         /\ Strip(items[i].title) = items[i].title
         /\ \A j \in 1..Len(items) : items[i].title = items[j].title => i = j
         /\ \E k \in 1..Len(stories) :
              /\ StrippedTitle(stories[k]) = items[i].title
              /\ items[i].summary = _build_rich_summary(stories[k])
              /\ \A k2 \in 1..Len(stories) :
                   StrippedTitle(stories[k2]) = items[i].title => ~Before(k2, k)
    /\ items = <<>> => \A k \in 1..Len(stories) : StrippedTitle(stories[k]) = <<>>

GlobalStories == world_stories \o politics_stories

\* most recent published_date first, the order of the answers among equals
GlobalBefore(k2, k) ==
    \/ PublishedDate(GlobalStories[k2]) > PublishedDate(GlobalStories[k])
    \/ /\ PublishedDate(GlobalStories[k2]) = PublishedDate(GlobalStories[k])
       /\ k2 < k

TechBefore(k2, k) == k2 < k

\* C6: within each section built from provider stories no two items share a
\* stripped title, no item has an empty title, and the item kept for a title
\* is the first one in processing order.
C6_DedupedAndFiltered ==
    /\ pc = "news_tech"
         => Deduplicated(global_politics_items, GlobalStories, GlobalBefore)
    /\ (pc = "calendar" /\ Len(requests) = 3 /\ requests[3].ok)
         => Deduplicated(IF news.technology = <<NoTechItem>> THEN <<>>
                         ELSE news.technology,
                         tech_stories, TechBefore)

\* two stories of one title, the later answer being the more recent one and
\* kept, and a story without a title among them
C6_Witness ==
    /\ pc = "news_tech"
    /\ Len(global_politics_items) >= 2
    /\ \E k, k2 \in 1..Len(GlobalStories) :
         /\ k2 < k
         /\ StrippedTitle(GlobalStories[k]) = StrippedTitle(GlobalStories[k2])
         /\ PublishedDate(GlobalStories[k]) > PublishedDate(GlobalStories[k2])
         /\ \E i \in 1..Len(global_politics_items) :
              /\ global_politics_items[i].title = StrippedTitle(GlobalStories[k])
              /\ global_politics_items[i].summary = _build_rich_summary(GlobalStories[k])
              /\ global_politics_items[i].summary /= _build_rich_summary(GlobalStories[k2])
    /\ \E k \in 1..Len(GlobalStories) : StrippedTitle(GlobalStories[k]) = <<>>

\* the positions of a token in the briefing
Positions(tok) == {i \in 1..Len(summary) : summary[i] = tok}

\* the lines of a list as they follow their header in the briefing
RECURSIVE Listed(_)
Listed(lines) ==
    IF lines = <<>> THEN <<>>
    ELSE <<"\n", "*", " ">> \o Head(lines) \o Listed(Tail(lines))

\* the briefing shows a section once: its header with the lines after it
\* when there are lines, its fallback sentence exactly when there are none
SectionShown(header, fallback, lines) ==
    /\ Cardinality(Positions(header[2])) + Cardinality(Positions(fallback[2])) = 1
    /\ (lines = <<>>) <=> (Positions(fallback[2]) /= {})
    /\ lines /= <<>> =>
         \E p \in Positions(header[2]) :
            /\ p + Len(Listed(lines)) <= Len(summary)
            /\ SubSeq(summary, p + 1, p + Len(Listed(lines))) = Listed(lines)

\* C7: the briefing holds the sections in the order greeting, weather,
\* global/political news, technology news, calendar, packages; the calendar
\* and the packages section appear once each, with the list of the fetcher
\* when it is not empty and the 'nothing found' sentence exactly when it is.
C7_OrderedSections ==
    Returned =>
        /\ summary[1] = Greeting[1]
        /\ SectionShown(EventsHeader, NoEvents, events)
        /\ SectionShown(PackagesHeader, NoPackages, packages)
        /\ \E w \in Positions("Weather:"), g \in Positions(GlobalHeader[2]),
              t \in Positions(TechHeader[2]),
              c \in Positions(EventsHeader[2]) \cup Positions(NoEvents[2]),
              p \in Positions(PackagesHeader[2]) \cup Positions(NoPackages[2]) :
              /\ 1 < w /\ w < g /\ g < t /\ t < c /\ c < p
              /\ events /= <<>> => c + Len(Listed(events)) < p

C7_Witness ==
    /\ Returned
    /\ Len(events) >= 2
    /\ packages = <<>>
    /\ Positions(EventsHeader[2]) /= {}
    /\ Positions(NoPackages[2]) /= {}

AfterNews ==
    \/ pc \in {"calendar", "mail", "compose", "done", "responded"}
    \/ pc = "raised" /\ raisedBy /= "get_weather_summary"

\* C8: with NYT_API_KEY unset get_top_news issues no request and returns the
\* '(NYT API key missing)' item for both sections; with WEATHER_API_KEY unset
\* get_weather_summary issues no request and returns its fallback string; in
\* both cases the briefing goes on with the next fetcher.
C8_MissingKeyFallback ==
    /\ [](~NYT_KEY =>
            /\ \A i \in 1..Len(requests) : requests[i].endpoint \notin NytEndpoints
            /\ AfterNews =>
                 /\ Len(news.global_politics) = 1
                 /\ news.global_politics[1].title = <<"(NYT API key missing)">>
                 /\ news.technology = news.global_politics)
    /\ [](~WEATHER_KEY =>
            /\ \A i \in 1..Len(requests) : requests[i].endpoint /= "weather"
            /\ pc /= "weather" => weather = WeatherKeyMissing)
    /\ [][/\ (pc = "weather" /\ ~WEATHER_KEY) => pc' = "news_world"
          /\ (pc = "news_world" /\ ~NYT_KEY) => pc' = "calendar"]_vars

C8_Witness ==
    /\ ~NYT_KEY
    /\ ~WEATHER_KEY
    /\ Returned
    /\ news.technology[1].title = <<"(NYT API key missing)">>
    /\ weather = WeatherKeyMissing
    /\ requests /= <<>>

\* the place of an endpoint in the run
Rank(endpoint) ==
    CASE endpoint = "weather" -> 1
      [] endpoint = "nyt_world" -> 2
      [] endpoint = "nyt_politics" -> 3
      [] endpoint = "nyt_technology" -> 4
      [] endpoint = "calendar_list" -> 5
      [] endpoint = "gmail_list" -> 6
      [] OTHER -> 7

\* C9: the endpoints are requested in the order weather, NYT world, NYT
\* politics, NYT technology, calendar list, mail list, each at most once, and
\* no NYT section is requested after the request of an earlier one failed.
C9_SequentialNoRetry ==
    \A i, j \in 1..Len(requests) :
        i < j =>
           /\ Rank(requests[i].endpoint) <= Rank(requests[j].endpoint)
           /\ Rank(requests[i].endpoint) = Rank(requests[j].endpoint)
                => requests[i].endpoint = "gmail_get"
           /\ (requests[i].endpoint \in NytEndpoints /\ ~requests[i].ok)
                => requests[j].endpoint \notin NytEndpoints

C9_Witness ==
    /\ Returned
    /\ \E i, j, k \in 1..Len(requests) :
         /\ requests[i].endpoint = "weather"
         /\ requests[j].endpoint = "nyt_politics" /\ ~requests[j].ok
         /\ requests[k].endpoint = "gmail_list"
    /\ \E i \in 1..Len(requests) : requests[i].endpoint = "calendar_list"

\* C10: when one of the three NYT requests failed, get_top_news returns the
\* single 'News unavailable' item for both sections; no result shows that
\* item in one section and something else in the other.
C10_NewsAllOrNothing ==
    pc = "calendar" =>
        /\ (\E i \in 1..Len(requests) : ~requests[i].ok)
             => /\ Len(news.global_politics) = 1
                /\ news.global_politics[1].title = <<"News unavailable">>
                /\ news.technology = news.global_politics
        /\ ((\E i \in 1..Len(news.global_politics) :
                news.global_politics[i].title = <<"News unavailable">>)
            \/ (\E i \in 1..Len(news.technology) :
                news.technology[i].title = <<"News unavailable">>))
             => /\ news.technology = news.global_politics
                /\ Len(news.technology) = 1

C10_Witness ==
    /\ pc = "calendar"
    /\ Len(requests) = 3
    /\ requests[1].ok /\ requests[2].ok /\ ~requests[3].ok
    /\ news.global_politics[1].title = <<"News unavailable">>

====
